---------------------------- MODULE Spec2Model ----------------------------
(***************************************************************************)
(* Model of the Nedgame feed proxy, src/src/transform.mjs: the normaliser  *)
(* parseProducts, the row chunker chunk, the variant/file-name rules of    *)
(* main and buildOneVariant, and the run of main over the configured feeds.*)
(*                                                                         *)
(* Pure functions are operators.  The specifications:                      *)
(*   Spec          a run of main() over a configuration                    *)
(*   SpecChunk     chunk(array, size) applied to drawn inputs              *)
(*   SpecParse     parseProducts applied to drawn parser outputs           *)
(*   SpecVariants  the effective variant list of main applied to drawn     *)
(*                 feed configurations                                     *)
(***************************************************************************)
EXTENDS Integers, Sequences, FiniteSets, TLC

VARIABLES
    pc,          \* position of main(): "idle" (not a run), "start", "fetch",
                 \* "json", "variant", "index", "loop", "done"
    config,      \* the parsed feeds.config.json: a sequence of feeds
    idx,         \* index of the feed the for-loop of main is at
    responses,   \* what fetch/res.text() gave for each feed attempted so far
    products,    \* const products of the current loop iteration
    variants,    \* const variants of the current loop iteration
    files,       \* const files of the current loop iteration
    written,     \* every fs.writeFile that succeeded, in order
    indexLinks,  \* const indexLinks of main
    errlog,      \* console.error calls of the per-feed catch
    exitCode,    \* <<>> while running, <<0>> or <<1>> once the process ended
    fatal,       \* <<>>, or <<err>>: what main().catch printed before exit(1)
    fn,          \* pure-function specifications: the function applied
    arg,         \* its argument
    ret          \* its return value

runVars == <<pc, config, idx, responses, products, variants, files, written,
             indexLinks, errlog, exitCode, fatal>>
pureVars == <<fn, arg, ret>>
vars == <<pc, config, idx, responses, products, variants, files, written,
          indexLinks, errlog, exitCode, fatal, fn, arg, ret>>

(***************************************************************************)
(* Bounds.                                                                 *)
(***************************************************************************)
MaxItems == 17      \* longest product list given to chunk
MaxSize == 5        \* largest row width given to chunk

(***************************************************************************)
(* JavaScript helpers.                                                     *)
(***************************************************************************)
\* An optional value: <<>> is undefined, <<x>> is x.
None == <<>>
Some(x) == <<x>>

Min(a, b) == IF a < b THEN a ELSE b
Max(a, b) == IF a > b THEN a ELSE b

(***************************************************************************)
(* chunk(array, size), transform.mjs 148-168.                              *)
(***************************************************************************)
maxProductsPerItem == 8

\* Mutant of Slice: the end index taken as inclusive.
SliceInclusive(array, from, to) ==
    SubSeq(array, Min(from, Len(array)) + 1, Min(to + 1, Len(array)))

\* Array.prototype.slice(from, to) for 0 <= from <= to, 0-based, end exclusive.
Slice(array, from, to) ==
    SubSeq(array, Min(from, Len(array)) + 1, Min(to, Len(array)))

\* Mutant of ChunkLoop: the index advanced one too far, so the product after
\* every row is skipped.
RECURSIVE ChunkLoopSkips(_, _, _)
ChunkLoopSkips(array, step, i) ==
    IF i < Len(array)
    THEN <<Slice(array, i, i + step)>> \o ChunkLoopSkips(array, step, i + step + 1)
    ELSE <<>>

\* The for-loop "for (i = 0; i < array.length; i += step) push(slice(i, i + step))".
RECURSIVE ChunkLoop(_, _, _)
ChunkLoop(array, step, i) ==
    IF i < Len(array)
    THEN <<Slice(array, i, i + step)>> \o ChunkLoop(array, step, i + step)
    ELSE <<>>

\* Mutant of chunk: width 1 returns the whole list as one row.
chunkOneRow(array, size) ==
    IF size <= 1 THEN IF array = <<>> THEN <<>> ELSE <<array>>
    ELSE IF size = 2 THEN ChunkLoop(array, maxProductsPerItem, 0)
    ELSE ChunkLoop(array, size, 0)

\* Mutant of chunk: every width of 2 or more grouped by the super-group size.
chunkGroupsOfEight(array, size) ==
    IF size <= 1 THEN [k \in 1..Len(array) |-> <<array[k]>>]
    ELSE ChunkLoop(array, maxProductsPerItem, 0)

\* Mutant of chunk: width 2 grouped like every other width, in rows of 2.
chunkPairs(array, size) ==
    IF size <= 1 THEN [k \in 1..Len(array) |-> <<array[k]>>]
    ELSE ChunkLoop(array, size, 0)

chunk(array, size) ==
    IF size <= 1 THEN [k \in 1..Len(array) |-> <<array[k]>>]
    ELSE IF size = 2 THEN ChunkLoop(array, maxProductsPerItem, 0)
    ELSE ChunkLoop(array, size, 0)

(***************************************************************************)
(* parseProducts(xmlText), transform.mjs 14-39.  A string is a sequence of *)
(* one-character strings.  What XMLParser.parse returns for a tag is       *)
(*   [kind |-> "undef"]            the tag is absent (undefined)           *)
(*   [kind |-> "text",  s |-> ..]  a string (or number: String(v) is its   *)
(*                                 digits)                                 *)
(*   [kind |-> "cdata", s |-> ..]  an object { __cdata: s }                *)
(*   [kind |-> "object"]           an object without __cdata               *)
(***************************************************************************)
Undef == [kind |-> "undef", s |-> <<>>]
Text(s) == [kind |-> "text", s |-> s]
CData(s) == [kind |-> "cdata", s |-> s]
Obj == [kind |-> "object", s |-> <<>>]

IsSpace(c) == c = " "

RECURSIVE TrimStart(_)
TrimStart(s) == IF s # <<>> /\ IsSpace(Head(s)) THEN TrimStart(Tail(s)) ELSE s

RECURSIVE TrimEnd(_)
TrimEnd(s) ==
    IF s # <<>> /\ IsSpace(s[Len(s)]) THEN TrimEnd(SubSeq(s, 1, Len(s) - 1)) ELSE s

\* String.prototype.trim
Trim(s) == TrimEnd(TrimStart(s))

\* String(v) of an object without __cdata
ObjectString == <<"[object Object]">>

\* Mutant of norm: the CDATA branch forgets to trim.
normNoCDataTrim(v) ==
    IF v.kind = "undef" THEN <<>>
    ELSE IF v.kind = "cdata" THEN v.s
    ELSE IF v.kind = "object" THEN Trim(ObjectString)
    ELSE Trim(v.s)

\* const norm = (v) => ..., transform.mjs 24-28
norm(v) ==
    IF v.kind = "undef" THEN <<>>
    ELSE IF v.kind = "cdata" THEN Trim(v.s)
    ELSE IF v.kind = "object" THEN Trim(ObjectString)
    ELSE Trim(v.s)

\* String.prototype.replace(a, b) with a string pattern: the first occurrence only.
RECURSIVE ReplaceFirst(_, _, _)
ReplaceFirst(s, a, b) ==
    IF s = <<>> THEN <<>>
    ELSE IF Head(s) = a THEN <<b>> \o Tail(s)
    ELSE <<Head(s)>> \o ReplaceFirst(Tail(s), a, b)

Digits == {"0", "1", "2", "3", "4", "5", "6", "7", "8", "9"}
DigitVal(c) ==
    CASE c = "0" -> 0 [] c = "1" -> 1 [] c = "2" -> 2 [] c = "3" -> 3 [] c = "4" -> 4
      [] c = "5" -> 5 [] c = "6" -> 6 [] c = "7" -> 7 [] c = "8" -> 8 [] c = "9" -> 9

RECURSIVE TakeDigits(_)
TakeDigits(s) ==
    IF s # <<>> /\ Head(s) \in Digits THEN <<Head(s)>> \o TakeDigits(Tail(s)) ELSE <<>>

RECURSIVE DigitsToNat(_)
DigitsToNat(ds) ==
    IF ds = <<>> THEN 0 ELSE 10 * DigitsToNat(SubSeq(ds, 1, Len(ds) - 1)) + DigitVal(ds[Len(ds)])

\* A number is mant / 10^exp, negated when neg; NaN is its own value.
NaN == [nan |-> TRUE, neg |-> FALSE, mant |-> 0, exp |-> 0]

RECURSIVE Number(_, _, _)
Number(neg, mant, exp) ==
    IF exp > 0 /\ mant % 10 = 0 THEN Number(neg, mant \div 10, exp - 1)
    ELSE [nan |-> FALSE, neg |-> neg, mant |-> mant, exp |-> exp]

\* parseFloat: the longest prefix that is a decimal literal (sign, digits,
\* ".", digits), NaN when that prefix holds no digit.  Exponents and
\* "Infinity" are left out: no input drawn here holds an "e" or an "I".
parseFloat(str) ==
    LET s == TrimStart(str)
        signed == s # <<>> /\ Head(s) \in {"+", "-"}
        neg == s # <<>> /\ Head(s) = "-"
        body == IF signed THEN Tail(s) ELSE s
        int == TakeDigits(body)
        rest == SubSeq(body, Len(int) + 1, Len(body))
        frac == IF rest # <<>> /\ Head(rest) = "." THEN TakeDigits(Tail(rest)) ELSE <<>>
    IN  IF int = <<>> /\ frac = <<>> THEN NaN
        ELSE Number(neg, DigitsToNat(int \o frac), Len(frac))

\* .map(p => ({ id, title, link, image, price })), transform.mjs 31-37
MapProduct(p) ==
    [id |-> norm(p.id),
     title |-> norm(p.title),
     link |-> norm(p.link),
     image |-> norm(p.image_link),
     price |-> parseFloat(ReplaceFirst(norm(p.price), ",", "."))]

\* A string is truthy when it is not empty.
Truthy(s) == s # <<>>

\* Mutant of KeepProduct: the link is not looked at.
KeepProductNoLink(p) == Truthy(p.id) /\ Truthy(p.title)

\* Mutant of KeepProduct: a product without image is dropped as well.
KeepProductNeedsImage(p) == Truthy(p.id) /\ Truthy(p.title) /\ Truthy(p.link) /\ Truthy(p.image)

\* .filter(p => p.id && p.title && p.link), transform.mjs 38
KeepProduct(p) == Truthy(p.id) /\ Truthy(p.title) /\ Truthy(p.link)

RECURSIVE FilterKept(_)
FilterKept(seq) ==
    IF seq = <<>> THEN <<>>
    ELSE (IF KeepProduct(Head(seq)) THEN <<Head(seq)>> ELSE <<>>) \o FilterKept(Tail(seq))

\* What parser.parse(xmlText) gives: it throws (parses = FALSE), or it returns
\* an object whose rss.items.product is undefined (None), one product object
\* (array = FALSE) or an array of product objects.
Malformed == [parses |-> FALSE, product |-> None]
NoPath == [parses |-> TRUE, product |-> None]
SingleDoc(p) == [parses |-> TRUE, product |-> Some([array |-> FALSE, v |-> p])]
ArrayDoc(ps) == [parses |-> TRUE, product |-> Some([array |-> TRUE, v |-> ps])]

\* Mutant of parseProducts: a document without the rss > items > product
\* path is refused.
parseProductsStrict(doc) ==
    IF ~doc.parses \/ doc.product = None THEN [threw |-> TRUE, value |-> <<>>]
    ELSE LET items == doc.product[1]
             raw == IF items.array THEN items.v ELSE <<items.v>>
             mapped == [k \in 1..Len(raw) |-> MapProduct(raw[k])]
         IN  [threw |-> FALSE, value |-> FilterKept(mapped)]

\* parseProducts, transform.mjs 14-39: threw, or the value returned.
parseProducts(doc) ==
    IF ~doc.parses THEN [threw |-> TRUE, value |-> <<>>]
    ELSE LET items == IF doc.product = None THEN [array |-> TRUE, v |-> <<>>]
                      ELSE doc.product[1]
             raw == IF items.array THEN items.v ELSE <<items.v>>
             mapped == [k \in 1..Len(raw) |-> MapProduct(raw[k])]
         IN  [threw |-> FALSE, value |-> FilterKept(mapped)]

(***************************************************************************)
(* productCardHTML(p, perRow), transform.mjs 42-70.  The card is the       *)
(* record of what the template interpolates: the cell width, the href, the *)
(* <img> with its src and alt, the title text and the price text.          *)
(***************************************************************************)
AmpEntity == <<"&", "a", "m", "p", ";">>
LtEntity == <<"&", "l", "t", ";">>
GtEntity == <<"&", "g", "t", ";">>

\* String.prototype.replace(/a/g, b): every occurrence of the character a.
RECURSIVE ReplaceAll(_, _, _)
ReplaceAll(s, a, b) ==
    IF s = <<>> THEN <<>>
    ELSE (IF Head(s) = a THEN b ELSE <<Head(s)>>) \o ReplaceAll(Tail(s), a, b)

\* Mutant of esc: the ampersand is not replaced.
escNoAmp(s) == ReplaceAll(ReplaceAll(s, "<", LtEntity), ">", GtEntity)

\* const esc of productCardHTML and of toRss, transform.mjs 43-44 and 173
esc(s) == ReplaceAll(ReplaceAll(ReplaceAll(s, "&", AmpEntity), "<", LtEntity), ">", GtEntity)

DigitChar(d) ==
    CASE d = 0 -> "0" [] d = 1 -> "1" [] d = 2 -> "2" [] d = 3 -> "3" [] d = 4 -> "4"
      [] d = 5 -> "5" [] d = 6 -> "6" [] d = 7 -> "7" [] d = 8 -> "8" [] d = 9 -> "9"

\* String(n) of a natural number
RECURSIVE NatToDigits(_)
NatToDigits(n) ==
    IF n < 10 THEN <<DigitChar(n)>> ELSE NatToDigits(n \div 10) \o <<DigitChar(n % 10)>>

\* String(n) of an integer
IntToString(n) == IF n < 0 THEN <<"-">> \o NatToDigits(0 - n) ELSE NatToDigits(n)

RECURSIVE Pow10(_)
Pow10(n) == IF n = 0 THEN 1 ELSE 10 * Pow10(n - 1)

\* x scaled by 10^digits and rounded to the nearest integer (no price drawn
\* here lies halfway between two).
Scaled(x, digits) ==
    IF x.exp <= digits THEN x.mant * Pow10(digits - x.exp)
    ELSE (x.mant + Pow10(x.exp - digits) \div 2) \div Pow10(x.exp - digits)

\* Mutant of toFixed: one fraction digit, whatever is asked for.
toFixedOneDigit(x, digits) ==
    LET n == Scaled(x, 1)
    IN  (IF x.neg /\ x.mant > 0 THEN <<"-">> ELSE <<>>)
        \o NatToDigits(n \div 10) \o <<".">> \o <<DigitChar(n % 10)>>

\* Number.prototype.toFixed(digits) of a finite number, digits >= 1
toFixed(x, digits) ==
    LET n == Scaled(x, digits)
        frac == NatToDigits(n % Pow10(digits))
        zeros == [k \in 1..(digits - Len(frac)) |-> "0"]
    IN  (IF x.neg /\ x.mant > 0 THEN <<"-">> ELSE <<>>)
        \o NatToDigits(n \div Pow10(digits)) \o <<".">> \o zeros \o frac

\* isFinite(x) of a price
IsFinite(x) == ~x.nan

\* String(x) of a price that isFinite rejects; NaN is the only such price
\* parseFloat yields here.
NonFiniteToString(x) == <<"N", "a", "N">>

productCardHTML(p, perRow) ==
    [widthPercent |-> 100 \div perRow,
     href |-> p.link,
     img |-> Some([src |-> p.image, alt |-> esc(p.title)]),
     title |-> esc(p.title),
     price |-> IF IsFinite(p.price) THEN toFixed(p.price, 2) ELSE esc(NonFiniteToString(p.price))]

(***************************************************************************)
(* rowHTML(productsInRow, perRow), transform.mjs 73-145: the <tr> elements *)
(* of the table inside the CDATA section, each the sequence of its cells;  *)
(* a cell is Some(card) or, for an empty filler <td>, None.                *)
(***************************************************************************)
CardsOf(row, perRow) == [k \in 1..Len(row) |-> Some(productCardHTML(row[k], perRow))]

\* Mutant of rowHTML: the last product of the row gets no card.
rowHTMLDropsLast(productsInRow, perRow) ==
    <<CardsOf(SubSeq(productsInRow, 1, Len(productsInRow) - 1), perRow)>>

\* Mutant of rowHTML: no empty filler cells.
rowHTMLNoFiller(productsInRow, perRow) ==
    IF perRow = 2
    THEN [r \in 1..((Len(productsInRow) + 1) \div 2) |->
            CardsOf(Slice(productsInRow, 2 * (r - 1), 2 * (r - 1) + 2), perRow)]
    ELSE <<CardsOf(productsInRow, perRow)>>

rowHTML(productsInRow, perRow) ==
    IF perRow = 2
    THEN [r \in 1..((Len(productsInRow) + 1) \div 2) |->
            LET pair == Slice(productsInRow, 2 * (r - 1), 2 * (r - 1) + 2)
            IN  CardsOf(pair, perRow) \o (IF Len(pair) < 2 THEN <<None>> ELSE <<>>)]
    ELSE LET emptyCells == perRow - Len(productsInRow)
         IN  <<CardsOf(productsInRow, perRow)
               \o [k \in 1..Max(0, emptyCells) |-> None]>>

(***************************************************************************)
(* toRss({site, feedTitle, itemsChunks, perRow}), transform.mjs 171-213.   *)
(* The document is the record of the channel fields and the sequence of    *)
(* items.  site.* and feedTitle are optional (config.site || {} and        *)
(* feed.title may lack them); now is the clock reading of the rendering:   *)
(* new Date().toUTCString() and Date.now() are kept as that instant.       *)
(***************************************************************************)
\* `${x}` and String(x) of an optional string
Interpolate(x) == IF x = None THEN <<"undefined">> ELSE x[1]

\* x || fallback of an optional string
OrElse(x, fallback) == IF x # None /\ x[1] # <<>> THEN x[1] ELSE fallback

\* " U+2013 ", the en dash between two spaces of the item title
EnDash == <<" ", "U+2013", " ">>

\* const itemTitle, count = itemsChunks.length, k = idx + 1
itemTitle(feedTitle, perRow, count, k) ==
    IF perRow = 2
    THEN Interpolate(feedTitle) \o EnDash \o IntToString(perRow) \o <<" kolommen">>
    ELSE IF count > 1
         THEN Interpolate(feedTitle) \o EnDash \o IntToString(perRow) \o <<" per rij">>
                  \o EnDash \o <<"set ">> \o IntToString(k)
         ELSE Interpolate(feedTitle) \o EnDash \o IntToString(perRow) \o <<" per rij">>

\* chunk[0]?.link || site.link
firstLink(row, site) ==
    IF Len(row) > 0 /\ row[1].link # <<>> THEN row[1].link ELSE Interpolate(site.link)

\* Mutant of firstImage: the first non-empty image of the row.
firstImageOfAny(row) ==
    IF \E k \in 1..Len(row) : row[k].image # <<>>
    THEN Some(row[CHOOSE k \in 1..Len(row) :
                      /\ row[k].image # <<>>
                      /\ \A j \in 1..(k - 1) : row[j].image = <<>>].image)
    ELSE None

\* chunk[0]?.image
firstImage(row) == IF Len(row) > 0 THEN Some(row[1].image) ELSE None

\* const enclosure: the element, or None for the empty string
enclosure(row) ==
    IF firstImage(row) # None /\ firstImage(row)[1] # <<>>
    THEN Some([url |-> firstImage(row)[1], length |-> <<"0">>, type |-> <<"image/jpeg">>])
    ELSE None

\* Mutant of guid: the clock reading is used whatever the row.
guidOfClock(feedTitle, perRow, k, row, now) ==
    esc(Interpolate(feedTitle) \o <<"-">> \o IntToString(perRow) \o <<"-">>
        \o IntToString(k) \o <<"-">> \o NatToDigits(now))

\* Mutant of guid: the width is left out.
guidNoWidth(feedTitle, perRow, k, row, now) ==
    esc(Interpolate(feedTitle) \o <<"-">> \o IntToString(k) \o <<"-">>
        \o (IF Len(row) > 0 /\ row[1].id # <<>> THEN row[1].id ELSE NatToDigits(now)))

\* the <guid> text: `${feedTitle}-${perRow}-${idx + 1}-${chunk[0]?.id || Date.now()}`
guid(feedTitle, perRow, k, row, now) ==
    esc(Interpolate(feedTitle) \o <<"-">> \o IntToString(perRow) \o <<"-">>
        \o IntToString(k) \o <<"-">>
        \o (IF Len(row) > 0 /\ row[1].id # <<>> THEN row[1].id ELSE NatToDigits(now)))

toRss(site, feedTitle, itemsChunks, perRow, now) ==
    [channel |->
        [title |-> esc(OrElse(feedTitle, Interpolate(site.title))),
         link |-> Interpolate(site.link),
         description |-> esc(OrElse(site.description, <<"Proxy feed">>)),
         language |-> OrElse(site.language, <<"nl-NL">>),
         lastBuildDate |-> now],
     items |->
        [k \in 1..Len(itemsChunks) |->
            [title |-> esc(itemTitle(feedTitle, perRow, Len(itemsChunks), k)),
             link |-> firstLink(itemsChunks[k], site),
             guid |-> guid(feedTitle, perRow, k, itemsChunks[k], now),
             pubDate |-> now,
             description |-> rowHTML(itemsChunks[k], perRow),
             enclosure |-> enclosure(itemsChunks[k])]]]

\* the document buildOneVariant renders, transform.mjs 216-222
RenderVariant(site, feedTitle, prods, perRow, now) ==
    toRss(site, feedTitle, chunk(prods, Max(1, perRow)), perRow, now)

(***************************************************************************)
(* The variant list of main and the file name of buildOneVariant.  A feed  *)
(* of feeds.config.json is [slug, default_per_row, row_variants], the last *)
(* two optional.                                                           *)
(***************************************************************************)
\* feed.default_per_row || 3, transform.mjs 225 and 259: undefined and 0 are falsy.
DefaultPerRow(feed) ==
    IF feed.default_per_row = None \/ feed.default_per_row[1] = 0
    THEN 3
    ELSE feed.default_per_row[1]

Includes(seq, x) == \E k \in 1..Len(seq) : seq[k] = x

\* Mutant of Dedup: duplicates are kept.
DedupKeepsAll(seq) == seq

\* Array.from(new Set(seq)): the first occurrence of each value, in order.
RECURSIVE Dedup(_)
Dedup(seq) ==
    IF seq = <<>> THEN <<>>
    ELSE LET front == Dedup(SubSeq(seq, 1, Len(seq) - 1))
             last == seq[Len(seq)]
         IN  IF Includes(front, last) THEN front ELSE Append(front, last)

\* n => Math.max(1, parseInt(n, 10)) for an integer n
Coerce(n) == Max(1, n)

\* const variants of main, transform.mjs 259-264
EffectiveVariants(feed) ==
    LET defaultPerRow == DefaultPerRow(feed)
        rv == feed.row_variants
        listed == IF rv # None /\ Len(rv[1]) > 0
                  THEN Dedup([k \in 1..Len(rv[1]) |-> Coerce(rv[1][k])])
                  ELSE <<defaultPerRow>>
    IN  IF ~Includes(listed, defaultPerRow) THEN <<defaultPerRow>> \o listed ELSE listed

\* Mutant of FileName: the suffix is decided against the literal 3, not the
\* feed's default_per_row.
FileNameDefaultThree(feed, perRow) ==
    feed.slug \o (IF perRow = 3 THEN "" ELSE "-r" \o ToString(perRow)) \o ".xml"

\* const fileName of buildOneVariant, transform.mjs 225-226
FileName(feed, perRow) ==
    LET suffix == IF perRow = DefaultPerRow(feed) THEN "" ELSE "-r" \o ToString(perRow)
    IN  feed.slug \o suffix \o ".xml"

(***************************************************************************)
(* The run variables of a specification that is not a run of main.         *)
(***************************************************************************)
NoRun ==
    /\ pc = "idle"
    /\ config = <<>>
    /\ idx = 0
    /\ responses = <<>>
    /\ products = <<>>
    /\ variants = <<>>
    /\ files = <<>>
    /\ written = <<>>
    /\ indexLinks = <<>>
    /\ errlog = <<>>
    /\ exitCode = None
    /\ fatal = None

(***************************************************************************)
(* SpecChunk: chunk applied to a drawn product list and width.  Products   *)
(* are told apart by their position in the feed, 1..n.                     *)
(***************************************************************************)
ChunkInputs ==
    {[array |-> [k \in 1..n |-> k], size |-> s] : n \in 0..MaxItems, s \in 1..MaxSize}

InitChunk ==
    /\ NoRun
    /\ fn = "chunk"
    /\ arg \in ChunkInputs
    /\ ret = None

CallChunk ==
    /\ fn = "chunk"
    /\ ret = None
    /\ ret' = Some(chunk(arg.array, arg.size))
    /\ UNCHANGED <<fn, arg>>
    /\ UNCHANGED runVars

NextChunk == CallChunk

SpecChunk == InitChunk /\ [][NextChunk]_vars

RECURSIVE Flatten(_)
Flatten(rows) == IF rows = <<>> THEN <<>> ELSE Head(rows) \o Flatten(Tail(rows))

ChunkDone == fn = "chunk" /\ ret # None
Rows == ret[1]

\* C2: for every product list and every width >= 2 (width 2 included, with its
\* super-group of 8), the rows of chunk concatenated in order are the input
\* list: nothing lost, duplicated or reordered.
C2_ChunkLossless ==
    (ChunkDone /\ arg.size >= 2) => Flatten(Rows) = arg.array

\* C2 witness: width 2 on a list longer than one super-group, chunked into
\* several rows.
C2_Witness ==
    ChunkDone /\ arg.size = 2 /\ Len(arg.array) > maxProductsPerItem /\ Len(Rows) >= 2

\* C3: chunk(products, 1) returns len(products) rows, the k-th holding exactly
\* the k-th product; the empty list gives zero rows.
C3_ChunkWidthOne ==
    (ChunkDone /\ arg.size = 1) =>
        /\ Len(Rows) = Len(arg.array)
        /\ \A k \in 1..Len(Rows) : Rows[k] = <<arg.array[k]>>
        /\ (arg.array = <<>> => Rows = <<>>)

\* C3 witness: width 1 on a list of several products.
C3_Witness ==
    ChunkDone /\ arg.size = 1 /\ Len(arg.array) >= 3 /\ Len(Rows) >= 3

\* C4 as stated: for every requested width N >= 1, every row chunk returns
\* holds at least 1 and at most N products.
C4_RowAtMostWidth ==
    ChunkDone => \A k \in 1..Len(Rows) : Len(Rows[k]) >= 1 /\ Len(Rows[k]) <= arg.size

\* C4 amended: every row holds at least 1 product, and at most N products for
\* every width N other than 2; at width 2 a row is a super-group of at most 8.
C4_RowSizeAmended ==
    ChunkDone =>
        \A k \in 1..Len(Rows) :
            /\ Len(Rows[k]) >= 1
            /\ Len(Rows[k]) <= IF arg.size = 2 THEN maxProductsPerItem ELSE arg.size

\* C4 witness: width 2 with a full super-group of 8, followed by a shorter row.
C4_Witness ==
    /\ ChunkDone /\ arg.size = 2 /\ Len(Rows) = 2
    /\ Len(Rows[1]) = maxProductsPerItem /\ Len(Rows[2]) < maxProductsPerItem

\* C22: for every width >= 3 chunk groups sequentially: row k (from 0) holds
\* the products at positions [k*width, (k+1)*width) of the input, every row
\* but the last has exactly width products and the last has 1..width.
C22_SequentialGrouping ==
    (ChunkDone /\ arg.size >= 3) =>
        LET n == Len(arg.array)
            w == arg.size
        IN  /\ \A k \in 0..(Len(Rows) - 1) :
                  Rows[k + 1] = [j \in 1..(Min((k + 1) * w, n) - k * w) |-> arg.array[k * w + j]]
            /\ \A k \in 1..(Len(Rows) - 1) : Len(Rows[k]) = w
            /\ Rows # <<>> => Len(Rows[Len(Rows)]) \in 1..w
            /\ n > 0 => Rows # <<>>

\* C22 witness: width 3 on a list that leaves a shorter last row.
C22_Witness ==
    /\ ChunkDone /\ arg.size = 3 /\ Len(Rows) >= 3
    /\ Len(Rows[1]) = 3 /\ Len(Rows[Len(Rows)]) = 1

(***************************************************************************)
(* SpecParse: parseProducts applied to a drawn parser output.  The raw     *)
(* products are a well-formed product with one tag varied at a time, and   *)
(* an element with no tags at all.                                         *)
(***************************************************************************)
MaxRaw == 2         \* longest raw product array given to parseProducts

BaseRaw ==
    [id |-> Text(<<"1">>), title |-> CData(<<" ", "a", " ">>), link |-> Text(<<"u">>),
     image_link |-> CData(<<"i">>), price |-> Text(<<"1", ",", "5">>)]

RequiredVals ==
    {Undef, Obj, Text(<<>>), Text(<<" ">>), Text(<<"2">>), Text(<<" ", "b">>),
     CData(<<>>), CData(<<" ", " ">>), CData(<<"c", " ">>), CData(<<" ", "d", " ">>)}
ImageVals == {Undef, Text(<<>>), CData(<<" ", "j">>)}
PriceVals ==
    {Undef, Text(<<>>), Text(<<"x">>), Text(<<"9", ".", "9", "9">>), CData(<<"2", ",", "0">>),
     Text(<<"-", "1">>), Text(<<"1", ",", "2", ",", "3">>), Text(<<",", "5">>),
     Text(<<".">>)}

RawProducts ==
    {[BaseRaw EXCEPT ![f] = v] : f \in {"id", "title", "link"}, v \in RequiredVals}
    \cup {[BaseRaw EXCEPT !.image_link = v] : v \in ImageVals}
    \cup {[BaseRaw EXCEPT !.price = v] : v \in PriceVals}
    \cup {[id |-> Undef, title |-> Undef, link |-> Undef, image_link |-> Undef,
           price |-> Undef]}

RawArrays == UNION {[1..n -> RawProducts] : n \in 0..MaxRaw}

ParseInputs ==
    {Malformed, NoPath} \cup {SingleDoc(p) : p \in RawProducts}
    \cup {ArrayDoc(ps) : ps \in RawArrays}

InitParse ==
    /\ NoRun
    /\ fn = "parseProducts"
    /\ arg \in ParseInputs
    /\ ret = None

CallParse ==
    /\ fn = "parseProducts"
    /\ ret = None
    /\ ret' = Some(parseProducts(arg))
    /\ UNCHANGED <<fn, arg>>
    /\ UNCHANGED runVars

NextParse == CallParse

SpecParse == InitParse /\ [][NextParse]_vars

ParseDone == fn = "parseProducts" /\ ret # None
Parsed == ret[1]

\* The raw products handed to the map of parseProducts.
RawOf(doc) ==
    IF doc.product = None THEN <<>>
    ELSE IF doc.product[1].array THEN doc.product[1].v ELSE <<doc.product[1].v>>

\* C1: parseProducts never returns a product whose id, title or link is the
\* empty string, and the strings it returns carry no leading or trailing
\* blank (they are trimmed, CDATA unwrapped).
C1_NoEmptyKeyField ==
    (ParseDone /\ ~Parsed.threw) =>
        \A k \in 1..Len(Parsed.value) :
            LET p == Parsed.value[k]
            IN  \A s \in {p.id, p.title, p.link} :
                    Len(s) >= 1 /\ ~IsSpace(s[1]) /\ ~IsSpace(s[Len(s)])

\* C1 witness: an array in which one record is dropped for a blank CDATA key
\* field and another is kept.
C1_Witness ==
    /\ ParseDone /\ ~Parsed.threw
    /\ Len(RawOf(arg)) = 2 /\ Len(Parsed.value) = 1
    /\ \E k \in 1..2 : RawOf(arg)[k].link = CData(<<" ", " ">>)

\* The value of a tag is not empty: an object, or text or CDATA holding
\* something other than blanks.
NonEmpty(v) ==
    \/ v.kind = "object"
    \/ v.kind \in {"text", "cdata"} /\ \E i \in 1..Len(v.s) : ~IsSpace(v.s[i])

\* The positions of the raw records whose id, title and link are not empty.
KeptIdx(raw) ==
    {k \in 1..Len(raw) : NonEmpty(raw[k].id) /\ NonEmpty(raw[k].title) /\ NonEmpty(raw[k].link)}

\* C25: parseProducts keeps exactly the records whose id, title and link are
\* not empty (after unwrapping and trimming), whatever their image and price,
\* in input order; one product element outside a list is handled as a list
\* of one.
C25_KeepsInOrder ==
    (ParseDone /\ arg.parses) =>
        LET raw == RawOf(arg)
            rank(k) == Cardinality({i \in KeptIdx(raw) : i <= k})
        IN  /\ ~Parsed.threw
            /\ Len(Parsed.value) = Cardinality(KeptIdx(raw))
            /\ \A k \in KeptIdx(raw) : Parsed.value[rank(k)] = MapProduct(raw[k])
            /\ (arg.product # None /\ ~arg.product[1].array) => Len(raw) = 1

\* C25 witness: an array of two records, the first with an unparsable price
\* and the second without image, both kept in that order.
C25_Witness ==
    /\ ParseDone /\ ~Parsed.threw /\ Len(Parsed.value) = 2
    /\ Parsed.value[1].price = NaN /\ Parsed.value[1].image # <<>>
    /\ Parsed.value[2].image = <<>> /\ Parsed.value[2].price # NaN

\* A single document: one record outside a list, kept as the only product.
C25_SingleKept ==
    /\ ParseDone /\ arg.product # None /\ ~arg.product[1].array
    /\ Len(Parsed.value) = 1

(***************************************************************************)
(* SpecVariants: the variant list of main computed for a drawn feed.       *)
(***************************************************************************)
MaxWidth == 4       \* largest width a drawn feed configures
MaxVariants == 3    \* longest row_variants list of a drawn feed
MaxBelow == 1       \* a drawn row_variants entry is at least -MaxBelow

VariantInputs ==
    {[slug |-> "a", default_per_row |-> d, row_variants |-> rv] :
        d \in {None} \cup {Some(n) : n \in 0..MaxWidth},
        rv \in {None} \cup {Some(list) :
                  list \in UNION {[1..n -> (0 - MaxBelow)..MaxWidth] : n \in 0..MaxVariants}}}

InitVariants ==
    /\ NoRun
    /\ fn = "variants"
    /\ arg \in VariantInputs
    /\ ret = None

CallVariants ==
    /\ fn = "variants"
    /\ ret = None
    /\ ret' = Some(EffectiveVariants(arg))
    /\ UNCHANGED <<fn, arg>>
    /\ UNCHANGED runVars

NextVariants == CallVariants

SpecVariants == InitVariants /\ [][NextVariants]_vars

VariantsDone == fn = "variants" /\ ret # None
Listed == IF arg.row_variants = None THEN <<>> ELSE arg.row_variants[1]
CoercedSet == {IF Listed[k] < 1 THEN 1 ELSE Listed[k] : k \in 1..Len(Listed)}
NoDuplicates(seq) == \A j, k \in 1..Len(seq) : seq[j] = seq[k] => j = k

\* C6: the effective variant list holds no width twice; every width in it is
\* the feed's defaultPerRow or a configured entry coerced to at least 1, so
\* an integer >= 1; every configured entry is in it (coerced); defaultPerRow
\* is always in it, and is first when the configured list omits it.
C6_EffectiveVariants ==
    VariantsDone =>
        LET vs == ret[1]
            d == DefaultPerRow(arg)
        IN  /\ NoDuplicates(vs)
            /\ \A k \in 1..Len(vs) : vs[k] = d \/ (vs[k] >= 1 /\ vs[k] \in CoercedSet)
            /\ \A w \in CoercedSet : Includes(vs, w)
            /\ Includes(vs, d)
            /\ d \notin CoercedSet => vs[1] = d /\ Len(vs) = Cardinality(CoercedSet) + 1

\* C6 witness: a list with a repeated entry and an entry below 1 that omits
\* the default, which is then first.
C6_Witness ==
    /\ VariantsDone
    /\ arg.default_per_row = Some(3)
    /\ Listed = <<4, 0, 4>>
    /\ ret[1] = <<3, 4, 1>>

(***************************************************************************)
(* Spec: a run of main(), transform.mjs 232-957.  One action per stretch   *)
(* of main between two awaits whose outcome the environment decides: the   *)
(* start-up (config read, mkdir), the fetch of a feed, the write of its    *)
(* JSON, the write of one RSS variant, and the build and write of the      *)
(* index page.                                                             *)
(***************************************************************************)
MaxFeeds == 2       \* most feeds a configuration holds

\* Feeds are named by their place in the configuration; slugs are distinct.
SlugOf(k) == IF k = 1 THEN "a" ELSE IF k = 2 THEN "a-r2" ELSE "b" \o ToString(k)

\* The default_per_row / row_variants a configured feed may have.
FeedShapes ==
    {[default_per_row |-> None,    row_variants |-> None],
     [default_per_row |-> None,    row_variants |-> Some(<<>>)],
     [default_per_row |-> None,    row_variants |-> Some(<<4>>)],
     [default_per_row |-> Some(4), row_variants |-> Some(<<2, 4>>)],
     [default_per_row |-> Some(2), row_variants |-> Some(<<0>>)]}

Feed(k, shape) ==
    [slug |-> SlugOf(k), default_per_row |-> shape.default_per_row,
     row_variants |-> shape.row_variants]

Configs ==
    UNION {{[k \in 1..n |-> Feed(k, shapes[k])] : shapes \in [1..n -> FeedShapes]} :
              n \in 0..MaxFeeds}

\* The bodies a feed source may answer with: unparsable XML, XML without the
\* rss > items > product path, and a catalogue of three product elements of
\* which the last has a blank link.
RunBodies ==
    {Malformed, NoPath,
     ArrayDoc(<<BaseRaw, [BaseRaw EXCEPT !.id = CData(<<"2">>), !.price = Text(<<"x">>)],
                [BaseRaw EXCEPT !.link = CData(<<" ">>)]>>)}

\* What "await fetch(feed.source)" and "await res.text()" give.
Responses ==
    {[kind |-> "neterr", ok |-> FALSE, status |-> 0, body |-> Malformed],
     [kind |-> "http", ok |-> FALSE, status |-> 500, body |-> Malformed]}
    \cup {[kind |-> "http", ok |-> TRUE, status |-> 200, body |-> b] : b \in RunBodies}

Init ==
    /\ pc = "start"
    /\ config \in Configs
    /\ idx = 0
    /\ responses = <<>>
    /\ products = <<>>
    /\ variants = <<>>
    /\ files = <<>>
    /\ written = <<>>
    /\ indexLinks = <<>>
    /\ errlog = <<>>
    /\ exitCode = None
    /\ fatal = None
    /\ fn = "main"
    /\ arg = None
    /\ ret = None

\* A file written: by which feed of the loop (0: none), its kind, its path
\* under public/, and what it holds.
File(feed, kind, name, perRow, count, prods, rows, cards) ==
    [feed |-> feed, kind |-> kind, name |-> name, perRow |-> perRow, count |-> count,
     products |-> prods, rows |-> rows, cards |-> cards]

\* JSON.stringify writes NaN as null.
JsonNull == [null |-> TRUE]
JsonProduct(p) ==
    [id |-> p.id, title |-> p.title, link |-> p.link, image |-> p.image,
     price |-> IF p.price.nan THEN JsonNull ELSE p.price]

\* Mutant of JsonOut: only the first product is exported.
JsonOutFirstOnly(prods) ==
    [count |-> Len(prods),
     products |-> [k \in 1..Min(1, Len(prods)) |-> JsonProduct(prods[k])]]

\* const jsonOut of main as JSON.stringify writes it, transform.mjs 249-256
\* (title, source and generatedAt left out).
JsonOut(prods) ==
    [count |-> Len(prods),
     products |-> [k \in 1..Len(prods) |-> JsonProduct(prods[k])]]

\* Mutant of NextFeed: the loop steps over the feed after the current one.
NextFeedSkips ==
    /\ idx' = idx + 2
    /\ pc' = IF idx + 1 < Len(config) THEN "fetch" ELSE "index"
    /\ products' = <<>>
    /\ variants' = <<>>
    /\ files' = <<>>

\* The for-loop of main goes on to the next feed, or leaves the loop.
NextFeed ==
    /\ idx' = idx + 1
    /\ pc' = IF idx < Len(config) THEN "fetch" ELSE "index"
    /\ products' = <<>>
    /\ variants' = <<>>
    /\ files' = <<>>

\* Mutant of Catch: the error ends the loop over the feeds.
CatchEndsLoop(message) ==
    /\ errlog' = Append(errlog, [slug |-> config[idx].slug, message |-> message])
    /\ idx' = Len(config) + 1
    /\ pc' = "index"
    /\ products' = <<>>
    /\ variants' = <<>>
    /\ files' = <<>>

\* catch (e) { console.error(`Error on ${feed.slug}:`, e.message) }, 274-276
Catch(message) ==
    /\ errlog' = Append(errlog, [slug |-> config[idx].slug, message |-> message])
    /\ NextFeed

\* transform.mjs 233-241: the configuration is read and parsed and the output
\* directories are made; a failure rejects main, and main().catch exits 1.
Start ==
    /\ pc = "start"
    /\ \/ /\ pc' = IF Len(config) >= 1 THEN "fetch" ELSE "index"
          /\ idx' = 1
          /\ UNCHANGED <<exitCode, fatal>>
       \/ /\ pc' = "done"
          /\ exitCode' = Some(1)
          /\ fatal' = Some("startup")
          /\ UNCHANGED idx
    /\ UNCHANGED <<config, responses, products, variants, files, written, indexLinks,
                   errlog, pureVars>>

\* transform.mjs 243-246: fetch, the status check, res.text and parseProducts.
Fetch ==
    /\ pc = "fetch"
    /\ \E r \in Responses :
        /\ responses' = Append(responses, r)
        /\ IF r.kind = "neterr" THEN Catch("network") /\ UNCHANGED written
           ELSE IF ~r.ok THEN Catch("Fetch failed " \o ToString(r.status)) /\ UNCHANGED written
           ELSE LET parsed == parseProducts(r.body)
                IN  IF parsed.threw THEN Catch("parse") /\ UNCHANGED written
                    ELSE /\ products' = parsed.value
                         /\ pc' = "json"
                         /\ UNCHANGED <<idx, variants, files, written, errlog>>
    /\ UNCHANGED <<config, indexLinks, exitCode, fatal, pureVars>>

\* transform.mjs 249-266: the JSON export is written, then the variant list
\* is computed.
WriteJson ==
    /\ pc = "json"
    /\ \/ /\ written' = Append(written,
                File(idx, "json", "api/" \o config[idx].slug \o ".json", 0,
                     JsonOut(products).count, JsonOut(products).products, <<>>, <<>>))
          /\ variants' = EffectiveVariants(config[idx])
          /\ files' = <<>>
          /\ pc' = "variant"
          /\ UNCHANGED <<idx, products, errlog>>
       \/ /\ Catch("write")
          /\ UNCHANGED written
    /\ UNCHANGED <<config, responses, indexLinks, exitCode, fatal, pureVars>>

\* transform.mjs 267-273 with buildOneVariant, 215-230: the next variant is
\* chunked, rendered and written; after the last one the feed is pushed on
\* indexLinks.
WriteVariant ==
    /\ pc = "variant"
    /\ Len(files) < Len(variants)
    /\ LET feed == config[idx]
           perRow == variants[Len(files) + 1]
           chunks == chunk(products, Max(1, perRow))
           fileName == FileName(feed, perRow)
           pushed == Append(files, [perRow |-> perRow, file |-> fileName])
       IN  \/ /\ written' = Append(written,
                     File(idx, "rss", "rss/" \o fileName, perRow, 0, <<>>, chunks, <<>>))
              /\ IF Len(pushed) < Len(variants)
                 THEN /\ files' = pushed
                      /\ UNCHANGED <<pc, idx, products, variants, indexLinks>>
                 ELSE /\ indexLinks' = Append(indexLinks, [feed |-> feed, files |-> pushed])
                      /\ NextFeed
              /\ UNCHANGED errlog
           \/ /\ Catch("write")
              /\ UNCHANGED <<written, indexLinks>>
    /\ UNCHANGED <<config, responses, exitCode, fatal, pureVars>>

\* transform.mjs 280-290: previewData[slug] is the first 12 products of the
\* JSON file of that slug, [] when it cannot be read.
PreviewData(slug) ==
    LET name == "api/" \o slug \o ".json"
        hits == {k \in 1..Len(written) : written[k].kind = "json" /\ written[k].name = name}
    IN  IF hits = {} THEN <<>>
        ELSE Slice(written[CHOOSE k \in hits : \A j \in hits : j <= k].products, 0, 12)

disabledColumns == {1, 2, 3}

\* Array.prototype.filter(cols => !disabledColumns.has(cols))
RECURSIVE AvailableColumns(_)
AvailableColumns(seq) ==
    IF seq = <<>> THEN <<>>
    ELSE (IF Head(seq) \in disabledColumns THEN <<>> ELSE <<Head(seq)>>)
         \o AvailableColumns(Tail(seq))

\* transform.mjs 703-711: the feed card of one indexLinks entry; row_variants
\* must be there (feed.row_variants.filter throws a TypeError on undefined).
InitialCols(feed) ==
    LET defaultCols == DefaultPerRow(feed)
        availableColumns == AvailableColumns(feed.row_variants[1])
    IN  IF Includes(availableColumns, defaultCols) THEN defaultCols
        ELSE IF availableColumns # <<>> THEN availableColumns[1]
        ELSE defaultCols

InitialFile(feed) ==
    IF InitialCols(feed) = DefaultPerRow(feed)
    THEN feed.slug \o ".xml"
    ELSE feed.slug \o "-r" \o ToString(InitialCols(feed)) \o ".xml"

\* What building one feed card does: "throws" (TypeError), "loops" (the
\* preview loop "for (i = 0; i < Math.min(8, products.length); i += cols)"
\* never ends when cols <= 0 and there are products) or "ok".
CardOutcome(feed) ==
    IF feed.row_variants = None THEN "throws"
    ELSE IF Len(PreviewData(feed.slug)) > 0 /\ InitialCols(feed) <= 0 THEN "loops"
    ELSE "ok"

\* indexLinks.map(...): the cards are built in order; the first that throws
\* or loops decides.
RECURSIVE TemplateOutcome(_)
TemplateOutcome(links) ==
    IF links = <<>> THEN "ok"
    ELSE IF CardOutcome(Head(links).feed) # "ok" THEN CardOutcome(Head(links).feed)
    ELSE TemplateOutcome(Tail(links))

\* Mutant of Cards: the feed cards in reverse order.
CardsNewestFirst(links) ==
    [k \in 1..Len(links) |->
        [slug |-> links[Len(links) + 1 - k].feed.slug,
         buttons |-> links[Len(links) + 1 - k].feed.row_variants[1],
         initialCols |-> InitialCols(links[Len(links) + 1 - k].feed),
         initialFile |-> InitialFile(links[Len(links) + 1 - k].feed)]]

Cards(links) ==
    [k \in 1..Len(links) |->
        [slug |-> links[k].feed.slug,
         buttons |-> links[k].feed.row_variants[1],
         initialCols |-> InitialCols(links[k].feed),
         initialFile |-> InitialFile(links[k].feed)]]

\* transform.mjs 280-951: the preview data is read, the index page is built
\* and written.  A TypeError or a failed write rejects main (exit 1); when
\* main returns the process ends with exit code 0.
BuildIndex ==
    /\ pc = "index"
    /\ LET outcome == TemplateOutcome(indexLinks)
       IN  \/ /\ outcome = "throws"
              /\ pc' = "done"
              /\ exitCode' = Some(1)
              /\ fatal' = Some("TypeError")
              /\ UNCHANGED written
           \/ /\ outcome = "loops"
              /\ pc' = "loop"
              /\ UNCHANGED <<written, exitCode, fatal>>
           \/ /\ outcome = "ok"
              /\ written' = Append(written,
                     File(0, "index", "index.html", 0, 0, <<>>, <<>>, Cards(indexLinks)))
              /\ pc' = "done"
              /\ exitCode' = Some(0)
              /\ UNCHANGED fatal
           \/ /\ outcome = "ok"
              /\ pc' = "done"
              /\ exitCode' = Some(1)
              /\ fatal' = Some("write index.html")
              /\ UNCHANGED written
    /\ UNCHANGED <<config, idx, responses, products, variants, files, indexLinks,
                   errlog, pureVars>>

Next == Start \/ Fetch \/ WriteJson \/ WriteVariant \/ BuildIndex

Spec == Init /\ [][Next]_vars

\* Every await of main returns: no step of the run is put off forever.
LiveSpec == Spec /\ WF_vars(Next)

(***************************************************************************)
(* Claims about a run of main.                                             *)
(***************************************************************************)
\* The for-loop over the feeds has ended.
LoopDone == pc \in {"index", "loop", "done"} /\ idx > Len(config)

\* Feed k of the configuration has been attempted and its iteration has ended.
Finished(k) == k <= Len(responses) /\ (idx > k \/ pc \in {"index", "loop", "done"})

WrittenBy(k) == {j \in 1..Len(written) : written[j].feed = k}
Logged(k) == {j \in 1..Len(errlog) : errlog[j].slug = config[k].slug}
Linked(k) == \E j \in 1..Len(indexLinks) : indexLinks[j].feed = config[k]

\* Feed k wrote its JSON export and the RSS document of every width of its
\* effective variant list.
AllOutputs(k) ==
    /\ \E j \in WrittenBy(k) : written[j].kind = "json"
    /\ \A v \in 1..Len(EffectiveVariants(config[k])) :
        \E j \in WrittenBy(k) :
            written[j].kind = "rss" /\ written[j].perRow = EffectiveVariants(config[k])[v]

\* C5: buildOneVariant names the RSS file {slug}.xml exactly when the width
\* is the feed's defaultPerRow (default_per_row or 3) and {slug}-r{width}.xml
\* otherwise; the two names differ, and a feed that was built has one file
\* per width of its effective variant list.
C5_FileNaming ==
    /\ \A j \in 1..Len(written) :
        written[j].kind = "rss" =>
            LET feed == config[written[j].feed]
                w == written[j].perRow
                d == IF feed.default_per_row \in {None, Some(0)} THEN 3
                     ELSE feed.default_per_row[1]
                base == "rss/" \o feed.slug \o ".xml"
                suffixed == "rss/" \o feed.slug \o "-r" \o ToString(w) \o ".xml"
            IN  /\ base # suffixed
                /\ (w = d) => written[j].name = base
                /\ (w # d) => written[j].name = suffixed
    /\ \A j \in 1..Len(indexLinks) :
        LET vs == EffectiveVariants(indexLinks[j].feed)
            fs == indexLinks[j].files
        IN  /\ Len(fs) = Len(vs)
            /\ \A k \in 1..Len(vs) :
                /\ fs[k].perRow = vs[k]
                /\ \E i \in 1..Len(written) :
                    written[i].kind = "rss" /\ written[i].name = "rss/" \o fs[k].file

\* C5 witness: a feed with default_per_row 4 and row_variants [2, 4] was
\* built: width 4 went to {slug}.xml, width 2 to {slug}-r2.xml.
C5_Witness ==
    /\ Len(config) >= 1 /\ config[1].default_per_row = Some(4) /\ Linked(1)
    /\ \E j \in WrittenBy(1) : written[j].perRow = 4 /\ written[j].name = "rss/a.xml"
    /\ \E j \in WrittenBy(1) : written[j].perRow = 2 /\ written[j].name = "rss/a-r2.xml"

\* C7: when the fetch of a feed returns a non-success status, no JSON and no
\* RSS file is written for that feed, an error naming its slug is logged,
\* and the loop still attempts every feed of the configuration and writes
\* all outputs of every feed that does not itself fail.
C7_FetchFailureIsolated ==
    /\ \A k \in 1..Len(responses) :
        (responses[k].kind = "http" /\ ~responses[k].ok /\ Finished(k)) =>
            /\ WrittenBy(k) = {}
            /\ \E j \in Logged(k) : errlog[j].message = "Fetch failed 500"
            /\ ~Linked(k)
    /\ (pc \in {"index", "loop", "done"} /\ idx >= 1) =>
        /\ Len(responses) = Len(config)
        /\ \A k \in 1..Len(config) : Logged(k) = {} => AllOutputs(k) /\ Linked(k)

\* C7 witness: the first feed answered 500 and the second feed was built.
C7_Witness ==
    /\ LoopDone /\ Len(config) = 2
    /\ responses[1].kind = "http" /\ ~responses[1].ok
    /\ Logged(1) # {} /\ WrittenBy(1) = {}
    /\ Logged(2) = {} /\ AllOutputs(2) /\ Linked(2)

NoPathFeed(k) == responses[k].ok /\ responses[k].body = NoPath

\* C8 as stated: a feed whose XML parses but has no rss > items > product
\* path is skipped as a parse error: an error is logged and no JSON or RSS
\* output is written for it.
C8_NoPathIsParseError ==
    \A k \in 1..Len(responses) :
        (NoPathFeed(k) /\ Finished(k)) => (Logged(k) # {} /\ WrittenBy(k) = {})

\* C8 amended: such a feed is not an error but an empty catalogue: parsing
\* logs nothing (only a failed file write is logged), its JSON export holds
\* no products and each of its RSS documents holds no items, and unless a
\* write fails all its outputs are written and it is listed for the index.
C8_NoPathIsEmptyFeed ==
    \A k \in 1..Len(responses) :
        (NoPathFeed(k) /\ Finished(k)) =>
            /\ \A j \in Logged(k) : errlog[j].message = "write"
            /\ \A j \in WrittenBy(k) : written[j].products = <<>> /\ written[j].rows = <<>>
            /\ Logged(k) = {} => AllOutputs(k) /\ Linked(k)

\* C8 witness: a feed without the path was built, with an empty JSON export.
C8_Witness ==
    \E k \in 1..Len(responses) :
        /\ NoPathFeed(k) /\ Finished(k) /\ Logged(k) = {} /\ Linked(k)
        /\ \E j \in WrittenBy(k) : written[j].kind = "json" /\ written[j].products = <<>>

\* The run ended on a failed file operation of main itself (start-up, or the
\* write of index.html).
TopLevelIOFailure == fatal \in {Some("startup"), Some("write index.html")}

MinimalFeed(feed) == feed.default_per_row = None /\ feed.row_variants = None

\* C9: a feed configured with slug, title and source only is fully built:
\* when its fetch, parse and writes succeed and no file operation of main
\* fails, the run ends with exit code 0, the index page is written, and the
\* feed has its JSON export and exactly one RSS document, of width 3, named
\* {slug}.xml.
C9_MinimalFeedBuilt ==
    \A k \in 1..Len(config) :
        (pc = "done" /\ MinimalFeed(config[k]) /\ Linked(k) /\ ~TopLevelIOFailure) =>
            /\ exitCode = Some(0)
            /\ \E j \in 1..Len(written) : written[j].kind = "index"
            /\ \E j \in WrittenBy(k) : written[j].kind = "json"
            /\ \A i, j \in WrittenBy(k) :
                (written[i].kind = "rss" /\ written[j].kind = "rss") => i = j
            /\ \E j \in WrittenBy(k) :
                /\ written[j].kind = "rss" /\ written[j].perRow = 3
                /\ written[j].name = "rss/" \o config[k].slug \o ".xml"

\* C10: per-feed errors never change the exit code: a run whose
\* configuration loaded, and in which no file operation of main itself
\* failed, ends with exit code 0 whatever subset of its feeds failed.
C10_ExitCodeZero ==
    (pc = "done" /\ idx >= 1 /\ ~TopLevelIOFailure) => exitCode = Some(0)

\* C11: feeds are processed one at a time in configuration order: when the
\* loop is at feed idx, exactly the feeds before it have been fetched (and
\* feed idx itself once its fetch returned), each of them has either been
\* reported as failed or has written all its outputs, and the files were
\* written feed after feed, never a file of an earlier feed after one of a
\* later feed.
C11_OneFeedAtATime ==
    (pc \in {"fetch", "json", "variant", "index", "loop"} \/ (pc = "done" /\ idx >= 1)) =>
        /\ idx <= Len(config) + 1
        /\ Len(responses) = IF pc = "fetch" THEN idx - 1 ELSE Min(idx, Len(config))
        /\ \A k \in 1..(idx - 1) :
            k <= Len(config) => (Logged(k) # {}) # (Linked(k) /\ AllOutputs(k))
        /\ \A j \in 1..Len(written) : written[j].feed <= Min(idx, Len(config))
        /\ \A i, j \in 1..Len(written) :
            (i < j /\ written[j].feed # 0) => written[i].feed <= written[j].feed
        /\ \A i, j \in 1..Len(indexLinks) :
            i < j => \E a, b \in 1..Len(config) :
                        a < b /\ indexLinks[i].feed = config[a] /\ indexLinks[j].feed = config[b]

\* C11 witness: the fetch of the second feed is about to start, after the
\* first feed wrote all its outputs.
C11_Witness ==
    pc = "fetch" /\ idx = 2 /\ Len(responses) = 1 /\ Linked(1) /\ AllOutputs(1)

\* C12: for any two feeds with distinct slugs the output files written for
\* them are disjoint: no file name is written by two different feeds.
C12_DisjointOutputs ==
    \A i, j \in 1..Len(written) :
        (written[i].feed # 0 /\ written[j].feed # 0 /\ written[i].feed # written[j].feed
         /\ config[written[i].feed].slug # config[written[j].feed].slug)
            => written[i].name # written[j].name

\* C17: the JSON export of a feed holds the complete normalized product
\* list of the fetched body in feed order (a NaN price written as null), its
\* count is the length of that list, nothing of it depends on
\* default_per_row or row_variants, and it is written once per feed, before
\* any RSS variant of that feed; a parsed feed with no failed write has it.
C17_JsonExport ==
    /\ \A j \in 1..Len(written) :
        written[j].kind = "json" =>
            LET k == written[j].feed
                normalized == parseProducts(responses[k].body).value
                exported == written[j].products
            IN  /\ written[j].count = Len(normalized)
                /\ Len(exported) = Len(normalized)
                /\ \A i \in 1..Len(normalized) :
                    /\ exported[i].id = normalized[i].id
                    /\ exported[i].title = normalized[i].title
                    /\ exported[i].link = normalized[i].link
                    /\ exported[i].image = normalized[i].image
                    /\ exported[i].price =
                         IF normalized[i].price.nan THEN JsonNull ELSE normalized[i].price
                /\ \A i \in 1..Len(written) :
                    (written[i].kind = "json" /\ written[i].feed = k) => i = j
    /\ \A r \in 1..Len(written) :
        written[r].kind = "rss" =>
            \E j \in 1..(r - 1) : written[j].kind = "json" /\ written[j].feed = written[r].feed
    /\ \A k \in 1..Len(responses) :
        (Finished(k) /\ responses[k].ok /\ ~parseProducts(responses[k].body).threw
         /\ Logged(k) = {})
            => \E j \in WrittenBy(k) : written[j].kind = "json"

\* C17 witness: a feed with several row widths exported two products, one with
\* a NaN price, before its RSS documents.
C17_Witness ==
    \E j \in 1..Len(written) :
        /\ written[j].kind = "json" /\ written[j].count = 2
        /\ written[j].products[2].price = JsonNull
        /\ Len(EffectiveVariants(config[written[j].feed])) >= 2
        /\ \E r \in 1..Len(written) : r > j /\ written[r].kind = "rss"

(***************************************************************************)
(* SpecCard: productCardHTML applied to a drawn normalized product.        *)
(***************************************************************************)
MaxTitle == 3       \* longest title of a drawn product

TitleChars == {"&", "<", ">", "a", "\""}
Titles == UNION {[1..n -> TitleChars] : n \in 1..MaxTitle}
NormPrices == {parseFloat(ReplaceFirst(norm(v), ",", ".")) : v \in PriceVals}
                  \cup {parseFloat(<<"1", ".", "2", "3", "4">>), parseFloat(<<"1", "2">>)}

CardInputs ==
    {[p |-> [id |-> <<"1">>, title |-> t, link |-> <<"u">>, image |-> i, price |-> pr],
      perRow |-> w] :
        t \in Titles, i \in {<<>>, <<"i">>}, pr \in NormPrices, w \in 1..MaxSize}

InitCard ==
    /\ NoRun
    /\ fn = "productCardHTML"
    /\ arg \in CardInputs
    /\ ret = None

CallCard ==
    /\ fn = "productCardHTML"
    /\ ret = None
    /\ ret' = Some(productCardHTML(arg.p, arg.perRow))
    /\ UNCHANGED <<fn, arg>>
    /\ UNCHANGED runVars

NextCard == CallCard

SpecCard == InitCard /\ [][NextCard]_vars

CardDone == fn = "productCardHTML" /\ ret # None
Card == ret[1]

StartsWith(s, prefix) == Len(s) >= Len(prefix) /\ SubSeq(s, 1, Len(prefix)) = prefix
From(s, i) == SubSeq(s, i, Len(s))

\* No literal <, > or & in s: every & begins one of the three entities.
NoLiteralMarkup(s) ==
    \A i \in 1..Len(s) :
        /\ s[i] \notin {"<", ">"}
        /\ s[i] = "&" => \/ StartsWith(From(s, i), AmpEntity)
                         \/ StartsWith(From(s, i), LtEntity)
                         \/ StartsWith(From(s, i), GtEntity)

\* The text an HTML or XML reader gets back from s.
RECURSIVE Unescape(_)
Unescape(s) ==
    IF s = <<>> THEN <<>>
    ELSE IF StartsWith(s, AmpEntity) THEN <<"&">> \o Unescape(From(s, Len(AmpEntity) + 1))
    ELSE IF StartsWith(s, LtEntity) THEN <<"<">> \o Unescape(From(s, Len(LtEntity) + 1))
    ELSE IF StartsWith(s, GtEntity) THEN <<">">> \o Unescape(From(s, Len(GtEntity) + 1))
    ELSE <<Head(s)>> \o Unescape(Tail(s))

\* C15: the title is inserted, as alt text and as visible text, with every
\* &, < and > replaced by its entity: neither holds a literal <, > or
\* unescaped &, and both read back as the title.
C15_CardTitleEscaped ==
    CardDone =>
        \A s \in {Card.title, Card.img[1].alt} :
            NoLiteralMarkup(s) /\ Unescape(s) = arg.p.title

\* C15 witness: a title holding <, & and > was rendered.
C15_Witness ==
    CardDone /\ arg.p.title = <<"<", "&", ">">> /\ Card.title = LtEntity \o AmpEntity \o GtEntity

\* A two-decimal string: an optional sign, digits, ".", two digits.
IsTwoDecimal(s) ==
    LET body == IF s # <<>> /\ Head(s) = "-" THEN Tail(s) ELSE s
    IN  /\ Len(body) >= 4
        /\ body[Len(body) - 2] = "."
        /\ \A i \in 1..Len(body) : i # Len(body) - 2 => body[i] \in Digits

\* C20: productCardHTML renders a product whatever its price: a two-decimal
\* string when the price is finite, the same fixed text (which is no
\* formatted number) for every NaN price, and the image slot with the
\* product's image as src in both cases, also when the image is empty.
C20_CardPriceAndImage ==
    CardDone =>
        /\ Card.img # None
        /\ Card.img[1].src = arg.p.image
        /\ IsFinite(arg.p.price) => IsTwoDecimal(Card.price)
        /\ ~IsFinite(arg.p.price) => Card.price = <<"N", "a", "N">> /\ ~IsTwoDecimal(Card.price)

\* C20 witness: a product with a NaN price and no image was rendered.
C20_Witness ==
    CardDone /\ arg.p.price = NaN /\ arg.p.image = <<>> /\ Card.img # None

(***************************************************************************)
(* SpecRss: buildOneVariant's rendering (chunk, then toRss) of one drawn   *)
(* normalized product list at one width, done twice, at clock readings t1  *)
(* and t2.                                                                  *)
(***************************************************************************)
MaxTime == 2        \* latest clock reading of a rendering

\* The k-th product of a drawn list: ids and links differ from product to
\* product, every third image is empty, some links and titles hold an &,
\* every fourth price is NaN.
ProductAt(k, off) ==
    [id |-> NatToDigits(k),
     title |-> IF k % 2 = 0 THEN <<"a", "&", "b">> ELSE <<"a">>,
     link |-> <<"u", "?">> \o NatToDigits(k) \o (IF (k + off) % 2 = 1 THEN <<"&", "x">> ELSE <<>>),
     image |-> IF (k + off) % 3 = 0 THEN <<>> ELSE <<"i">> \o NatToDigits(k),
     price |-> IF k % 4 = 0 THEN NaN ELSE parseFloat(<<"1", ".", "5">>)]

ProductLists == {[k \in 1..n |-> ProductAt(k, off)] : n \in 0..MaxItems, off \in 0..2}

Sites ==
    {[title |-> None, link |-> None, description |-> None, language |-> None],
     [title |-> Some(<<"S">>), link |-> Some(<<"h">>), description |-> Some(<<>>),
      language |-> None],
     [title |-> Some(<<"S">>), link |-> Some(<<"h", "?", "a", "&", "b">>),
      description |-> Some(<<"d", "<", "e">>), language |-> Some(<<"n", "l">>)]}

FeedTitles == {None, Some(<<>>), Some(<<"T">>), Some(<<"T", "&", "Z">>)}

RssInputs ==
    {[site |-> st, feedTitle |-> ft, products |-> ps, perRow |-> w, t1 |-> a, t2 |-> b] :
        st \in Sites, ft \in FeedTitles, ps \in ProductLists, w \in 1..MaxSize,
        a \in 1..MaxTime, b \in 1..MaxTime}

InitRss ==
    /\ NoRun
    /\ fn = "toRss"
    /\ arg \in {a \in RssInputs : a.t1 <= a.t2}
    /\ ret = None

CallRss ==
    /\ fn = "toRss"
    /\ ret = None
    /\ ret' = Some([first |-> RenderVariant(arg.site, arg.feedTitle, arg.products,
                                            arg.perRow, arg.t1),
                    second |-> RenderVariant(arg.site, arg.feedTitle, arg.products,
                                             arg.perRow, arg.t2)])
    /\ UNCHANGED <<fn, arg>>
    /\ UNCHANGED runVars

NextRss == CallRss

SpecRss == InitRss /\ [][NextRss]_vars

RssDone == fn = "toRss" /\ ret # None
Doc == ret[1].first
Again == ret[1].second
RssRows == chunk(arg.products, Max(1, arg.perRow))

EndsWith(s, suffix) ==
    Len(s) >= Len(suffix) /\ SubSeq(s, Len(s) - Len(suffix) + 1, Len(s)) = suffix
SetSuffix(k) == EnDash \o <<"set ">> \o IntToString(k)
HasSetSuffix(s) == \E i \in 1..Len(s) : s[i] = "set "

\* The titles of a document follow the set-suffix rule.
SuffixRule(items) ==
    /\ Len(items) > 1 =>
          /\ \A k \in 1..Len(items) : EndsWith(items[k].title, SetSuffix(k))
          /\ \A j, k \in 1..Len(items) : j # k => items[j].title # items[k].title
    /\ Len(items) = 1 => ~HasSetSuffix(items[1].title)

\* C13: at every width, width 2 included, the items of a document
\* of several rows carry the suffix "set n" (so their titles differ) and the
\* item of a one-row document carries none.
C13_SetSuffixEveryWidth == RssDone => SuffixRule(Doc.items)

\* The text fields of the channel and of the items.
TextFields(doc) ==
    {doc.channel.title, doc.channel.link, doc.channel.description, doc.channel.language}
    \cup UNION {{doc.items[k].title, doc.items[k].link, doc.items[k].guid}
                  \cup {doc.items[k].enclosure[j].url : j \in 1..Len(doc.items[k].enclosure)} :
                    k \in 1..Len(doc.items)}

\* C14: every channel and item text field of the document has &, <
\* and > escaped; no link holds a literal &.
C14_AllFieldsEscaped == RssDone => \A s \in TextFields(Doc) : NoLiteralMarkup(s)

\* A document with its two date fields blanked.
WithoutDates(doc) ==
    [channel |-> [doc.channel EXCEPT !.lastBuildDate = 0],
     items |-> [k \in 1..Len(doc.items) |-> [doc.items[k] EXCEPT !.pubDate = 0]]]

\* C16: two renderings of the same product list at the same width are equal
\* in every field but pubDate and lastBuildDate; every guid is the same in
\* both.
C16_Rerender ==
    RssDone =>
        /\ WithoutDates(Doc) = WithoutDates(Again)
        /\ Len(Doc.items) = Len(Again.items)
        /\ \A k \in 1..Len(Doc.items) : Doc.items[k].guid = Again.items[k].guid

\* C16 witness: a list of several rows rendered at two different times; the
\* two documents differ.
C16_Witness ==
    RssDone /\ arg.t1 # arg.t2 /\ Len(Doc.items) >= 2 /\ Doc # Again

\* The cards an item shows, in order.
ShownCards(item) ==
    LET cells == SelectSeq(Flatten(item.description), LAMBDA c : c # None)
    IN  [k \in 1..Len(cells) |-> cells[k][1]]
ItemSizes(doc) == [k \in 1..Len(doc.items) |-> Len(ShownCards(doc.items[k]))]

\* C18: at a width w >= 3 the document of n products has ceil(n/w) items,
\* the k-th showing the products (k-1)w+1 .. min(kw, n) in order; 7 products
\* give items of 3, 3, 1 at width 3 and of 4, 3 at width 4.
C18_OneItemPerRow ==
    (RssDone /\ arg.perRow >= 3) =>
        LET n == Len(arg.products)
            w == arg.perRow
        IN  /\ Len(Doc.items) = (n + w - 1) \div w
            /\ \A k \in 1..Len(Doc.items) :
                  ShownCards(Doc.items[k])
                      = [j \in 1..(Min(k * w, n) - (k - 1) * w) |->
                            productCardHTML(arg.products[(k - 1) * w + j], w)]
            /\ (n = 7 /\ w = 3) => ItemSizes(Doc) = <<3, 3, 1>>
            /\ (n = 7 /\ w = 4) => ItemSizes(Doc) = <<4, 3>>

\* C18 witness: 7 products at width 3 rendered as items of 3, 3 and 1.
C18_Witness ==
    RssDone /\ Len(arg.products) = 7 /\ arg.perRow = 3 /\ ItemSizes(Doc) = <<3, 3, 1>>

\* C19: an item has an enclosure exactly when the first product of its row
\* has a non-empty image, and the url is that image; a later product's image
\* is never used.
C19_EnclosureFromFirst ==
    RssDone =>
        /\ Len(Doc.items) = Len(RssRows)
        /\ \A k \in 1..Len(Doc.items) :
              /\ Doc.items[k].enclosure # None <=> RssRows[k][1].image # <<>>
              /\ Doc.items[k].enclosure # None =>
                    Doc.items[k].enclosure[1].url = RssRows[k][1].image

\* C19 witness: one item without enclosure whose row has an image further
\* on, and one item with an enclosure.
C19_Witness ==
    /\ RssDone
    /\ \E k \in 1..Len(Doc.items) :
          /\ Doc.items[k].enclosure = None
          /\ \E j \in 2..Len(RssRows[k]) : RssRows[k][j].image # <<>>
    /\ \E k \in 1..Len(Doc.items) : Doc.items[k].enclosure # None

\* C23: at width 2 chunk uses a super-group of 8 products, 4 times the width:
\* row k (from 0) holds the products at positions [8k, 8k+8), so n products
\* give ceil(n/8) RSS items, each but the last showing exactly 8 products.
C23_SuperGroupOfEight ==
    (RssDone /\ arg.perRow = 2) =>
        LET n == Len(arg.products)
        IN  /\ maxProductsPerItem = 4 * arg.perRow
            /\ Len(RssRows) = (n + 7) \div 8
            /\ \A k \in 0..(Len(RssRows) - 1) :
                  RssRows[k + 1] = [j \in 1..(Min(8 * k + 8, n) - 8 * k) |-> arg.products[8 * k + j]]
            /\ Len(Doc.items) = (n + 7) \div 8
            /\ \A k \in 1..Len(Doc.items) :
                  ShownCards(Doc.items[k])
                      = [j \in 1..Len(RssRows[k]) |-> productCardHTML(RssRows[k][j], 2)]
            /\ \A k \in 1..(Len(Doc.items) - 1) : Len(ShownCards(Doc.items[k])) = 8

\* C23 witness: 17 products at width 2 rendered as items of 8, 8 and 1.
C23_Witness ==
    RssDone /\ arg.perRow = 2 /\ Len(arg.products) = 17 /\ ItemSizes(Doc) = <<8, 8, 1>>

\* The cells of a table row are cards followed by fillers only.
CardsThenFillers(tr) ==
    \A i, j \in 1..Len(tr) : (i < j /\ tr[i] = None) => tr[j] = None

\* C24: every <tr> that rowHTML emits for a row of the build has exactly
\* width cells, the cards in input order followed by empty fillers; at width
\* 2 a unit of m products becomes ceil(m/2) table rows of 2 cells, in product
\* order, with one filler exactly when m is odd.
C24_GridOfWidth ==
    RssDone =>
        \A k \in 1..Len(Doc.items) :
            LET trs == Doc.items[k].description
                row == RssRows[k]
                m == Len(row)
            IN  /\ \A t \in 1..Len(trs) : Len(trs[t]) = arg.perRow /\ CardsThenFillers(trs[t])
                /\ ShownCards(Doc.items[k])
                       = [j \in 1..m |-> productCardHTML(row[j], arg.perRow)]
                /\ arg.perRow # 2 => Len(trs) = 1
                /\ arg.perRow = 2 =>
                      /\ Len(trs) = (m + 1) \div 2
                      /\ \A t \in 1..(Len(trs) - 1) : None \notin {trs[t][1], trs[t][2]}
                      /\ Cardinality({j \in 1..2 : trs[Len(trs)][j] = None}) = m % 2

\* C24 witness: a unit of 3 products at width 2, laid out as two table rows,
\* the second with one filler.
C24_Witness ==
    /\ RssDone /\ arg.perRow = 2 /\ Len(arg.products) = 3
    /\ Len(Doc.items[1].description) = 2
    /\ Doc.items[1].description[2][2] = None

(***************************************************************************)
(* SpecGuids: the variant loop of main for one feed, transform.mjs         *)
(* 259-270: every width of the effective variant list rendered from the    *)
(* same product list.                                                      *)
(***************************************************************************)
MaxListed == 2      \* longest row_variants list of a feed drawn here

\* The id of the k-th product: all ids equal, ids repeating with a dash
\* inside, or ids made of dashes and digits that look like "row-id".
IdAt(k, pattern) ==
    CASE pattern = 0 -> <<"7">>
      [] pattern = 1 -> IF k % 2 = 1 THEN <<"1", "-", "1">> ELSE <<"1">>
      [] pattern = 2 -> <<"-">> \o NatToDigits(k % 3) \o <<"-">> \o NatToDigits(k)

GuidFeeds ==
    {[slug |-> "a", title |-> t, default_per_row |-> d, row_variants |-> rv] :
        t \in {Some(<<"T", "-", "1">>)},
        d \in {None, Some(1), Some(MaxWidth)},
        rv \in {None} \cup {Some(list) :
                  list \in UNION {[1..n -> 1..MaxWidth] : n \in 0..MaxListed}}}

GuidInputs ==
    {[feed |-> f,
      products |-> [k \in 1..n |-> [ProductAt(k, 0) EXCEPT !.id = IdAt(k, pattern)]]] :
        f \in GuidFeeds, n \in 0..MaxItems, pattern \in 0..2}

InitGuids ==
    /\ NoRun
    /\ fn = "variantLoop"
    /\ arg \in GuidInputs
    /\ ret = None

\* for (const perRow of variants) buildOneVariant(...): the documents in
\* the order of the variant list.
CallVariantLoop ==
    /\ fn = "variantLoop"
    /\ ret = None
    /\ LET variantList == EffectiveVariants(arg.feed)
           site == [title |-> None, link |-> None, description |-> None, language |-> None]
       IN  ret' = Some([v \in 1..Len(variantList) |->
                          [perRow |-> variantList[v],
                           doc |-> RenderVariant(site, arg.feed.title, arg.products,
                                                 variantList[v], 1)]])
    /\ UNCHANGED <<fn, arg>>
    /\ UNCHANGED runVars

NextGuids == CallVariantLoop

SpecGuids == InitGuids /\ [][NextGuids]_vars

GuidsDone == fn = "variantLoop" /\ ret # None
Rendered == ret[1]

\* C26: within one RSS document and across the documents of one feed's
\* variants, no two items have the same guid, also when products share an id
\* or ids hold dashes.
C26_GuidsDistinct ==
    GuidsDone =>
        \A v, w \in 1..Len(Rendered) :
            \A j \in 1..Len(Rendered[v].doc.items), k \in 1..Len(Rendered[w].doc.items) :
                Rendered[v].doc.items[j].guid = Rendered[w].doc.items[k].guid
                    => (v = w /\ j = k)

\* C26 witness: three variants of a list in which all products share one id,
\* each rendered to several items.
C26_Witness ==
    /\ GuidsDone /\ Len(Rendered) = 3
    /\ \A v \in 1..3 : Len(Rendered[v].doc.items) >= 2
    /\ \A k \in 1..Len(arg.products) : arg.products[k].id = <<"7">>

\* C27: per feed the outputs are all-or-nothing: when the processing of a
\* feed has ended, either its JSON export and the RSS document of every
\* width of its variant list were written, or no file was written for it.
C27_AllOrNothing ==
    \A k \in 1..Len(responses) :
        Finished(k) => (AllOutputs(k) \/ WrittenBy(k) = {})

\* C28: when every fetch and file operation returns, the run over the feed
\* list comes to its end.
C28_RunTerminates == <>(pc = "done")

\* The feeds that succeeded, in configuration order.
RECURSIVE Succeeded(_)
Succeeded(k) ==
    IF k = 0 THEN <<>>
    ELSE Succeeded(k - 1) \o (IF Logged(k) = {} THEN <<config[k].slug>> ELSE <<>>)

\* C29: the index page lists exactly the feeds that succeeded in this run,
\* in configuration order; a feed is on indexLinks only when all its outputs
\* were written, and a feed that failed is never on it.
C29_IndexListsSucceeded ==
    /\ \A k \in 1..Len(responses) :
          /\ Linked(k) => AllOutputs(k) /\ Logged(k) = {}
          /\ (Finished(k) /\ Logged(k) # {}) => ~Linked(k)
    /\ \A j \in 1..Len(written) :
          written[j].kind = "index" =>
              /\ Len(responses) = Len(config)
              /\ [k \in 1..Len(written[j].cards) |-> written[j].cards[k].slug]
                     = Succeeded(Len(config))

\* C29 witness: of two feeds the first failed; the index page lists the
\* second only.
C29_Witness ==
    /\ pc = "done" /\ Len(config) = 2 /\ Logged(1) # {} /\ Logged(2) = {}
    /\ \E j \in 1..Len(written) :
          /\ written[j].kind = "index"
          /\ Len(written[j].cards) = 1
          /\ written[j].cards[1].slug = config[2].slug

(***************************************************************************)
(* SpecPage: the script of the index page, transform.mjs 820-925, for the  *)
(* feed card of one feed.  The page is what the template wrote: one button *)
(* per row_variants entry (738-751), the URL field (764), and the preview  *)
(* table when the feed has products (782).                                 *)
(***************************************************************************)
MaxButtons == 2     \* longest row_variants list of a feed shown on the page
MaxCols == 5        \* largest column count of a button or of a call

\* const DISABLED_COLUMNS of the page script, transform.mjs 821
DISABLED_COLUMNS == {1, 2, 3}

\* function getFileName(feedSlug, cols), transform.mjs 841-846: feeds is the
\* config.feeds array the template serialises into the script.
getFileName(feeds, feedSlug, cols) ==
    LET found == {k \in 1..Len(feeds) : feeds[k].slug = feedSlug}
        defaultCols == IF found = {} THEN 3
                       ELSE DefaultPerRow(feeds[CHOOSE k \in found : \A j \in found : k <= j])
    IN  IF cols = defaultCols THEN feedSlug \o ".xml"
        ELSE feedSlug \o "-r" \o ToString(cols) \o ".xml"

\* The buttons the template writes for a feed, transform.mjs 738-751.
Buttons(feed) ==
    [k \in 1..Len(feed.row_variants[1]) |->
        [cols |-> feed.row_variants[1][k],
         disabled |-> feed.row_variants[1][k] \in disabledColumns,
         active |-> feed.row_variants[1][k] = InitialCols(feed)]]

\* function getCurrentCols(feedSlug), transform.mjs 833-839
getCurrentCols(buttons) ==
    LET actives == {k \in 1..Len(buttons) : buttons[k].active}
        enabled == {k \in 1..Len(buttons) : ~buttons[k].disabled}
    IN  IF actives # {} THEN buttons[CHOOSE k \in actives : \A j \in actives : k <= j].cols
        ELSE IF enabled # {} THEN buttons[CHOOSE k \in enabled : \A j \in enabled : k <= j].cols
        ELSE 3

\* The feeds a page can show: row_variants is there, and the template's own
\* preview loop came to an end.
PageFeeds ==
    {[slug |-> "a", default_per_row |-> d, row_variants |-> Some(list)] :
        d \in {None} \cup {Some(n) : n \in 0..MaxCols},
        list \in UNION {[1..n -> (0 - MaxBelow)..MaxCols] : n \in 0..MaxButtons}}

PageInputs ==
    {a \in {[feed |-> f, hasProducts |-> h] : f \in PageFeeds, h \in BOOLEAN} :
        ~(a.hasProducts /\ InitialCols(a.feed) <= 0)}

InitPage ==
    /\ NoRun
    /\ fn = "page"
    /\ arg \in PageInputs
    /\ ret = Some([buttons |-> Buttons(arg.feed),
                   url |-> InitialFile(arg.feed),
                   loaded |-> FALSE, hung |-> FALSE,
                   lastCall |-> None, before |-> None])

\* The DOMContentLoaded handler, transform.mjs 824-831.
DomContentLoaded ==
    /\ fn = "page"
    /\ ~ret[1].loaded
    /\ ret' = Some([ret[1] EXCEPT
                  !.loaded = TRUE,
                  !.url = getFileName(<<arg.feed>>, arg.feed.slug, getCurrentCols(ret[1].buttons))])
    /\ UNCHANGED <<fn, arg>>
    /\ UNCHANGED runVars

\* function updateColumns(feedSlug, cols), transform.mjs 859-925.  With a
\* preview table and cols <= 0 the loop at 879 never ends: the buttons were
\* toggled, the URL is not reached.
UpdateColumns(cols) ==
    /\ fn = "page"
    /\ ret[1].loaded /\ ~ret[1].hung
    /\ LET page == ret[1]
           seen == [page EXCEPT !.lastCall = Some(cols),
                                !.before = Some([buttons |-> page.buttons, url |-> page.url])]
           toggled == [k \in 1..Len(page.buttons) |->
                          [page.buttons[k] EXCEPT
                              !.active = (page.buttons[k].cols = cols
                                          /\ ~page.buttons[k].disabled)]]
       IN  ret' = Some(
               IF cols \in DISABLED_COLUMNS THEN seen
               ELSE IF arg.hasProducts /\ cols <= 0
                    THEN [seen EXCEPT !.buttons = toggled, !.hung = TRUE]
                    ELSE [seen EXCEPT !.buttons = toggled,
                                      !.url = getFileName(<<arg.feed>>, arg.feed.slug, cols)])
    /\ UNCHANGED <<fn, arg>>
    /\ UNCHANGED runVars

NextPage == DomContentLoaded \/ \E cols \in (0 - MaxBelow)..MaxCols : UpdateColumns(cols)

SpecPage == InitPage /\ [][NextPage]_vars

Page == ret[1]
Called == fn = "page" /\ Page.lastCall # None
ActiveButtons(buttons) == {k \in 1..Len(buttons) : buttons[k].active}

\* C30: after any sequence of updateColumns calls for one feed at most one
\* column button is active; a call with a disabled column (1, 2 or 3)
\* changes nothing; no disabled button becomes active through a call; and
\* after a call with an enabled column the URL field shows the file name
\* getFileName gives for that column.
C30_ColumnButtons ==
    Called =>
        LET cols == Page.lastCall[1]
            before == Page.before[1]
        IN  /\ Cardinality(ActiveButtons(Page.buttons)) <= 1
            /\ cols \in {1, 2, 3} => Page.buttons = before.buttons /\ Page.url = before.url
            /\ \A k \in 1..Len(Page.buttons) :
                  (Page.buttons[k].disabled /\ Page.buttons[k].active)
                      => before.buttons[k].active
            /\ cols \notin {1, 2, 3} =>
                  Page.url = getFileName(<<arg.feed>>, arg.feed.slug, cols)

\* The file names getFileName gives for the widths the build rendered are
\* the names buildOneVariant wrote.
RenderedNamesAgree ==
    \A j \in 1..Len(indexLinks) :
        \A k \in 1..Len(indexLinks[j].files) :
            getFileName(config, indexLinks[j].feed.slug, indexLinks[j].files[k].perRow)
                = indexLinks[j].files[k].file

\* C21: the index page computes RSS file names with the rule of the build:
\* for every feed on the page, getFileName(slug, width) is the name
\* buildOneVariant wrote for every width the build rendered, and the
\* initial file name of the feed card is the name of one of the files
\* buildOneVariant wrote for that feed.
C21_PageNamesAreBuildNames ==
    \A i \in 1..Len(written) :
        written[i].kind = "index" =>
            /\ RenderedNamesAgree
            /\ \A j \in 1..Len(written[i].cards) :
                  \E k \in 1..Len(indexLinks[j].files) :
                      written[i].cards[j].initialFile = indexLinks[j].files[k].file

============================================================================
